---------------------------- MODULE Spec2Model ----------------------------
(***************************************************************************)
(* A model of tmll's MemoryLeakDetection module                            *)
(* (src/tmll/ml/modules/anomaly_detection/memory_leak_detection_module.py) *)
(*                                                                         *)
(* State: the fields of one MemoryLeakDetection instance (dataframes,      *)
(* thresholds, ptr_lifecycle), the LeakAnalysisResult object the caller    *)
(* holds, and a record of the last call (its arguments, whether it raised, *)
(* the locals of _evaluate_severity).                                      *)
(*                                                                         *)
(* Numbers.  Python floats are modelled as exact rationals <<n, d>> with   *)
(* d > 0; binary rounding is not modelled.  A missing value (NaN, NaT,     *)
(* None) is the empty tuple <<>>, a present timestamp t is <<t>>.          *)
(* Timestamps and durations are whole time units (seconds).                *)
(* Pointer identities are the strings produced by astype(str); they are    *)
(* modelled by their rank 1, 2, ... in string order, the order groupby     *)
(* sorts them in.                                                          *)
(***************************************************************************)
EXTENDS Integers, Sequences, FiniteSets, TLC

VARIABLES
    dataframes,     \* self.dataframes: a dict, table name -> DataFrame
    linregress,     \* what stats.linregress returns for the memory series
    thresholds,     \* self.thresholds
    ptr_lifecycle,  \* self.ptr_lifecycle
    result,         \* the LeakAnalysisResult object the caller holds (None before)
    raised,         \* the exception the last call raised, None when it returned
    scores,         \* locals of the last _evaluate_severity call
    lastCall,       \* the last public call, its arguments, whether it repeats
                    \* the call before it
    plotCalls       \* number of plot_memory_leak_analysis calls so far

vars == <<dataframes, linregress, thresholds, ptr_lifecycle, result, raised,
          scores, lastCall, plotCalls>>

---------------------------------------------------------------------------
(* Bounds of the model *)
MaxEvents == 3
MaxSamples == 4
MaxPlots == 1

---------------------------------------------------------------------------
(* Values *)
None == <<>>
NaN == <<>>
NaT == <<>>
Some(x) == <<x>>
IsNull(v) == v = <<>>

\* Exact rationals in lowest terms.
RECURSIVE GCD(_, _)
GCD(a, b) == IF b = 0 THEN a ELSE GCD(b, a % b)
Abs(n) == IF n < 0 THEN 0 - n ELSE n
Rat(n, d) ==
    LET g == GCD(Abs(n), d)
    IN <<n \div g, d \div g>>
Whole(n) == <<n, 1>>
Num(r) == r[1]
Den(r) == r[2]
RLt(a, b) == Num(a) * Den(b) < Num(b) * Den(a)
RLe(a, b) == Num(a) * Den(b) <= Num(b) * Den(a)
REq(a, b) == Num(a) * Den(b) = Num(b) * Den(a)
RAdd(a, b) == Rat(Num(a) * Den(b) + Num(b) * Den(a), Den(a) * Den(b))
RMul(a, b) == Rat(Num(a) * Num(b), Den(a) * Den(b))
\* a / b for b # 0, keeping the denominator positive
RDiv(a, b) ==
    IF Num(b) > 0 THEN Rat(Num(a) * Den(b), Den(a) * Num(b))
    ELSE Rat(0 - Num(a) * Den(b), 0 - Den(a) * Num(b))
\* Python's min(a, b): b when b < a, else a
RMin(a, b) == IF RLt(b, a) THEN b ELSE a
RSub(a, b) == RAdd(a, Rat(0 - Num(b), Den(b)))

RECURSIVE SeqSum(_)
SeqSum(s) == IF s = <<>> THEN 0 ELSE Head(s) + SeqSum(Tail(s))

SetMax(S) == CHOOSE y \in S : \A z \in S : z <= y

RECURSIVE SortSet(_)
SortSet(S) ==
    IF S = {} THEN <<>>
    ELSE LET m == CHOOSE x \in S : \A y \in S : x <= y
         IN <<m>> \o SortSet(S \ {m})

Range(s) == {s[i] : i \in 1..Len(s)}

---------------------------------------------------------------------------
(* DataFrames: a set of column names and a sequence of rows.  A row's ts   *)
(* field is its index label (the timestamp).                               *)
DataFrame(cols, rows) == [columns |-> cols, rows |-> rows]
EmptyFrame == DataFrame({}, <<>>)             \* pd.DataFrame()
Empty(df) == df.columns = {} \/ df.rows = <<>>  \* DataFrame.empty

\* dict.get(key): None when the key is absent
Get(d, k) == IF k \in DOMAIN d THEN d[k] ELSE None

\* Event type names of a trace; Series.str.contains is modelled on them.
MallocTypes == {"lttng_ust_libc:malloc"}
FreeTypes == {"lttng_ust_libc:free"}
OtherTypes == {"sched_switch"}
ContainsMalloc(name) == name \in MallocTypes
ContainsFree(name) == name \in FreeTypes

---------------------------------------------------------------------------
(* Construction: BaseModule._process fetches the tables, then _post_process *)

\* Series.astype(str) on the ptr column: the raw tokens 9 and 10 become the
\* strings "9" and "10"; a string is represented by its rank in string order
\* ("10" < "9").
AsStr(p) == CASE p = 10 -> 1 [] p = 9 -> 2 [] OTHER -> p

EventCategory(name) ==
    IF ContainsFree(name) THEN "deallocation"
    ELSE IF ContainsMalloc(name) THEN "allocation"
    ELSE "other"

PostProcessRow(r) ==
    [ts |-> r.ts, event_type |-> r.event_type,
     allocation_size |-> r.size, ptr |-> AsStr(r.ptr),
     event_category |-> EventCategory(r.event_type)]

PostProcess(frames) ==
    IF "Events Table" \in DOMAIN frames
    THEN LET df == frames["Events Table"] IN
         IF ~ ({"size", "ptr"} \subseteq df.columns)
         THEN [frames EXCEPT !["Events Table"] = EmptyFrame]
         ELSE LET rows == [i \in 1..Len(df.rows) |-> PostProcessRow(df.rows[i])]
                  kept == SelectSeq(rows, LAMBDA r : r.event_category # "other")
              IN [frames EXCEPT !["Events Table"] =
                     DataFrame((df.columns \ {"size"})
                                  \cup {"allocation_size", "event_category"}, kept)]
    ELSE frames

---------------------------------------------------------------------------
(* _track_pointer_lifecycle *)

IsAllocation(r) == r.event_category = "allocation"
IsDeallocation(r) == r.event_category = "deallocation"

\* GroupBy.first(): the first non-null value of a column within the group
FirstNonNull(s) ==
    LET nn == SelectSeq(s, LAMBDA v : ~IsNull(v))
    IN IF nn = <<>> THEN NaN ELSE Head(nn)

\* allocation_records: the allocation rows with allocation_time = index
AllocationRecords(allocations) ==
    [i \in 1..Len(allocations) |->
        [ptr |-> allocations[i].ptr,
         event_type |-> allocations[i].event_type,
         allocation_size |-> allocations[i].allocation_size,
         allocation_time |-> Some(allocations[i].ts)]]

HasDuplicates(records) ==
    \E i, j \in 1..Len(records) : i # j /\ records[i].ptr = records[j].ptr

\* allocation_records.groupby("ptr").first().reset_index(): one row per ptr,
\* in sorted ptr order, each column holding its first non-null value
GroupByFirst(records) ==
    LET keys == SortSet({records[i].ptr : i \in 1..Len(records)})
        Column(f(_), p) ==
            LET grp == SelectSeq(records, LAMBDA r : r.ptr = p)
            IN FirstNonNull([i \in 1..Len(grp) |-> f(grp[i])])
    IN [k \in 1..Len(keys) |->
          [ptr |-> keys[k],
           event_type |-> Head(Column(LAMBDA r : Some(r.event_type), keys[k])),
           allocation_size |-> Column(LAMBDA r : r.allocation_size, keys[k]),
           allocation_time |-> Column(LAMBDA r : r.allocation_time, keys[k])]]

Dedup(records) ==
    IF HasDuplicates(records) THEN GroupByFirst(records) ELSE records

\* Mutation of MergeRow: the deallocation time is not carried over
MergeRowNoTime(l, dealloc) ==
    [ptr |-> l.ptr, event_type |-> l.event_type, size |-> l.allocation_size,
     allocation_time |-> l.allocation_time, deallocation_time |-> NaT]

\* pd.merge(left, right, on="ptr", how="left"): left order kept; a left row
\* appears once per matching right row, once with NaT when none matches
MergeRow(l, dealloc) ==
    [ptr |-> l.ptr, event_type |-> l.event_type, size |-> l.allocation_size,
     allocation_time |-> l.allocation_time, deallocation_time |-> dealloc]

\* Mutation of MergeLeft: a deallocation is paired only with an allocation
\* that does not come after it in time
RECURSIVE MergeLeftLater(_, _)
MergeLeftLater(left, right) ==
    IF left = <<>> THEN <<>>
    ELSE LET l == Head(left)
             m == SelectSeq(right, LAMBDA d : d.ptr = l.ptr /\ d.ts >= l.allocation_time[1])
             rows == IF m = <<>> THEN << MergeRow(l, NaT) >>
                     ELSE [i \in 1..Len(m) |-> MergeRow(l, Some(m[i].ts))]
         IN rows \o MergeLeftLater(Tail(left), right)

RECURSIVE MergeLeft(_, _)
MergeLeft(left, right) ==
    IF left = <<>> THEN <<>>
    ELSE LET l == Head(left)
             m == SelectSeq(right, LAMBDA d : d.ptr = l.ptr)
             rows == IF m = <<>> THEN << MergeRow(l, NaT) >>
                     ELSE [i \in 1..Len(m) |-> MergeRow(l, Some(m[i].ts))]
         IN rows \o MergeLeft(Tail(left), right)

\* Mutation of ClipLower0: the lifetime is not clipped
NoClip(x) == x

\* Series.clip(lower=0)
ClipLower0(x) == IF x < 0 THEN 0 ELSE x

\* (deallocation_time - allocation_time).dt.total_seconds(), clipped; NaN
\* where there is no deallocation
Lifetime(row) ==
    IF IsNull(row.deallocation_time) THEN NaN
    ELSE Some(ClipLower0(row.deallocation_time[1] - row.allocation_time[1]))

WithLifetime(row) ==
    [ptr |-> row.ptr, event_type |-> row.event_type, size |-> row.size,
     allocation_time |-> row.allocation_time,
     deallocation_time |-> row.deallocation_time,
     lifetime |-> Lifetime(row)]

LifecycleColumns ==
    {"ptr", "Event type", "size", "allocation_time", "deallocation_time", "lifetime"}

\* Lines 208-237: the merged table of a non-empty events table
MergedLifecycle(events_df) ==
    LET allocations == SelectSeq(events_df.rows, IsAllocation)
        deallocations == SelectSeq(events_df.rows, IsDeallocation)
        allocation_records == Dedup(AllocationRecords(allocations))
        merged == MergeLeft(allocation_records, deallocations)
    IN DataFrame(LifecycleColumns, [i \in 1..Len(merged) |-> WithLifetime(merged[i])])

\* Mutation of TrackPointerLifecycle: the merged rows are appended to the
\* cached table instead of replacing it
TrackOntoCache(frames, cached) ==
    IF "Events Table" \notin DOMAIN frames \/ Empty(frames["Events Table"])
    THEN [returned |-> EmptyFrame, ptr_lifecycle |-> cached]
    ELSE LET merged == MergedLifecycle(frames["Events Table"])
             grown == DataFrame(merged.columns, cached.rows \o merged.rows)
         IN [returned |-> grown, ptr_lifecycle |-> grown]

\* The method: what it returns and what self.ptr_lifecycle is afterwards
\* (the early return of lines 204-206 leaves the cached table alone)
TrackPointerLifecycle(frames, cached) ==
    IF "Events Table" \notin DOMAIN frames \/ Empty(frames["Events Table"])
    THEN [returned |-> EmptyFrame, ptr_lifecycle |-> cached]
    ELSE LET merged == MergedLifecycle(frames["Events Table"])
         IN [returned |-> merged, ptr_lifecycle |-> merged]

---------------------------------------------------------------------------
(* _analyze_memory_trend *)

MemoryMax(memory_df) == SetMax({memory_df.rows[i].usage : i \in 1..Len(memory_df.rows)})

\* data_preprocessor.normalize: every usage value divided by the column's
\* maximum
Normalize(memory_df) ==
    LET mx == MemoryMax(memory_df)
    IN DataFrame(memory_df.columns,
                 [i \in 1..Len(memory_df.rows) |->
                     [ts |-> memory_df.rows[i].ts,
                      usage |-> Rat(memory_df.rows[i].usage, mx)]])

\* Series.rolling(window=Timedelta).mean(): at each sample the mean of the
\* samples whose timestamp lies in (ts - window, ts] (min_periods is 1)
RollingMean(rows, window) ==
    [i \in 1..Len(rows) |->
        LET inWin == SelectSeq(SubSeq(rows, 1, i),
                               LAMBDA r : r.ts > rows[i].ts - window)
            num == SeqSum([j \in 1..Len(inWin) |-> Num(inWin[j].usage)])
        IN [ts |-> rows[i].ts,
            mean |-> Rat(num, Den(rows[i].usage) * Len(inWin))]]

SignificanceLevel == Rat(5, 100)     \* p_value < 0.05

AnalyzeMemoryTrend(memory_df, th, fit) ==
    LET normalized == Normalize(memory_df)
        is_significant == RLt(fit.p_value, SignificanceLevel)
        is_increasing == RLt(Whole(0), fit.slope)
        growth_rate == IF is_increasing THEN fit.slope ELSE Whole(0)
    IN [slope |-> fit.slope,
        intercept |-> fit.intercept,
        p_value |-> fit.p_value,
        growth_rate |-> growth_rate,
        is_significant |-> is_significant,
        rolling_mean |-> RollingMean(normalized.rows, th.window_size)]

---------------------------------------------------------------------------
(* _analyze_allocation_patterns *)

AnalyzeAllocationPatterns(events_df) ==
    LET allocation_events == SelectSeq(events_df.rows, IsAllocation)
        sizes == [i \in 1..Len(allocation_events) |-> allocation_events[i].allocation_size]
        valid_sizes == SelectSeq(sizes, LAMBDA v : ~IsNull(v))
        total == SeqSum([i \in 1..Len(valid_sizes) |-> valid_sizes[i][1]])
    IN [mean_allocation_size |->
            IF valid_sizes # <<>> THEN Rat(total, Len(valid_sizes)) ELSE Whole(0),
        total_allocations |-> Len(allocation_events),
        null_size_count |-> Len(sizes) - Len(valid_sizes)]

---------------------------------------------------------------------------
(* _calculate_memory_metrics *)

\* Mutation of Unresolved: notna() in place of isna()
ResolvedRows(ptr_tracking) ==
    SelectSeq(ptr_tracking.rows, LAMBDA r : ~IsNull(r.deallocation_time))

Unresolved(ptr_tracking) ==
    SelectSeq(ptr_tracking.rows, LAMBDA r : IsNull(r.deallocation_time))

\* growth_periods = rolling_mean.diff() > 0; the first diff is NaN
GrowthPeriods(rolling_mean) ==
    [i \in 1..Len(rolling_mean) |->
        i > 1 /\ RLt(rolling_mean[i - 1].mean, rolling_mean[i].mean)]

\* (growth_periods != growth_periods.shift()).cumsum(): the group label of
\* each sample; a new group starts wherever the flag changes
RECURSIVE GroupIds(_, _)
GroupIds(flags, i) ==
    IF i = 0 THEN <<>>
    ELSE LET before == GroupIds(flags, i - 1)
         IN IF i = 1 THEN <<1>>
            ELSE Append(before, IF flags[i] # flags[i - 1]
                                THEN before[i - 1] + 1 ELSE before[i - 1])

\* groupby(labels).apply(lambda x: span of x if len(x) > 1 else 0).max()
MaxGrowthDuration(rolling_mean) ==
    LET flags == GrowthPeriods(rolling_mean)
        ids == GroupIds(flags, Len(flags))
        Members(g) == {i \in 1..Len(ids) : ids[i] = g}
        Span(g) ==
            IF Cardinality(Members(g)) > 1
            THEN rolling_mean[SetMax(Members(g))].ts
                 - rolling_mean[CHOOSE i \in Members(g) : \A j \in Members(g) : i <= j].ts
            ELSE 0
    IN SetMax({Span(g) : g \in Range(ids)})

CalculateMemoryMetrics(ptr_tracking, memory_trend, allocation_patterns) ==
    LET unreleased == Len(Unresolved(ptr_tracking))
        allocated_chunks == Len(ptr_tracking.rows)
        concurrent_chunks == Len(Unresolved(ptr_tracking))
        fragmentation_score ==
            IF ~Empty(ptr_tracking)
            THEN (IF allocated_chunks > 0
                  THEN Rat(concurrent_chunks, allocated_chunks) ELSE Whole(0))
            ELSE Whole(0)
    IN [unreleased_allocations |-> unreleased,
        total_allocations |-> allocation_patterns.total_allocations,
        leak_rate |-> memory_trend.growth_rate,
        avg_allocation_size |-> allocation_patterns.mean_allocation_size,
        max_continuous_growth_duration |-> MaxGrowthDuration(memory_trend.rolling_mean),
        memory_fragmentation_score |-> fragmentation_score,
        regression_slope |-> memory_trend.slope,
        regression_intercept |-> memory_trend.intercept]

---------------------------------------------------------------------------
(* _evaluate_severity *)

\* Mutation of SeverityOf: <= in place of <, a boundary value stays in the
\* lower band
SeverityOfClosedBands(weighted_score) ==
    IF RLe(weighted_score, Rat(2, 10)) THEN "NONE"
    ELSE IF RLe(weighted_score, Rat(4, 10)) THEN "LOW"
    ELSE IF RLe(weighted_score, Rat(6, 10)) THEN "MEDIUM"
    ELSE IF RLe(weighted_score, Rat(8, 10)) THEN "HIGH"
    ELSE "CRITICAL"

SeverityOf(weighted_score) ==
    IF RLt(weighted_score, Rat(2, 10)) THEN "NONE"
    ELSE IF RLt(weighted_score, Rat(4, 10)) THEN "LOW"
    ELSE IF RLt(weighted_score, Rat(6, 10)) THEN "MEDIUM"
    ELSE IF RLt(weighted_score, Rat(8, 10)) THEN "HIGH"
    ELSE "CRITICAL"

\* growth_score: leak_rate is the numpy float slope when it is positive and
\* the Python int 0 otherwise, so with a zero threshold a positive leak rate
\* divides to inf (min(1.0, inf) = 1.0) and a zero one raises.
GrowthFault(metrics, th) ==
    Num(th.growth_slope) = 0 /\ ~RLt(Whole(0), metrics.leak_rate)

GrowthScore(metrics, th) ==
    IF Num(th.growth_slope) = 0 THEN Whole(1)
    ELSE RMin(Whole(1), RDiv(metrics.leak_rate, th.growth_slope))

\* unreleased_score: int / int raises ZeroDivisionError on a zero divisor
UnreleasedFault(metrics) == metrics.total_allocations = 0

UnreleasedScore(metrics) ==
    RMin(Whole(1), Rat(metrics.unreleased_allocations, metrics.total_allocations))

\* fragmentation_score: float / float raises on a zero divisor
FragmentationFault(th) == Num(th.fragmentation) = 0

FragmentationScore(metrics, th) ==
    RMin(Whole(1), RDiv(metrics.memory_fragmentation_score, th.fragmentation))

\* Mutation of WeightedScore: the weights 0.6, 0.2, 0.2
WeightedScoreGrowthHeavy(growth_score, unreleased_score, fragmentation_score) ==
    RAdd(RAdd(RMul(Rat(6, 10), growth_score), RMul(Rat(2, 10), unreleased_score)),
         RMul(Rat(2, 10), fragmentation_score))

WeightedScore(growth_score, unreleased_score, fragmentation_score) ==
    RAdd(RAdd(RMul(Rat(4, 10), growth_score), RMul(Rat(4, 10), unreleased_score)),
         RMul(Rat(2, 10), fragmentation_score))

Confidence(metrics, p_value) ==
    RMin(Whole(1),
         RAdd(RMul(Rat(6, 10), RSub(Whole(1), p_value)),
              RMul(Rat(4, 10), Whole(metrics.total_allocations))))

\* The locals of one _evaluate_severity call; a local the call did not reach
\* is None.
Locals(exc, g, u, f, w, c, sev) ==
    [raised |-> exc, growth_score |-> g, unreleased_score |-> u,
     fragmentation_score |-> f, weighted_score |-> w, confidence |-> c,
     severity |-> sev]

EvaluateSeverity(metrics, p_value, th) ==
    LET g == GrowthScore(metrics, th)
        u == UnreleasedScore(metrics)
        f == FragmentationScore(metrics, th)
        w == WeightedScore(g, u, f)
    IN IF GrowthFault(metrics, th)
       THEN Locals("ZeroDivisionError", None, None, None, None, None, None)
       ELSE IF UnreleasedFault(metrics)
       THEN Locals("ZeroDivisionError", g, None, None, None, None, None)
       ELSE IF FragmentationFault(th)
       THEN Locals("ZeroDivisionError", g, u, None, None, None, None)
       ELSE Locals("none", g, u, f, w, Confidence(metrics, p_value),
                   Some(SeverityOf(w)))

---------------------------------------------------------------------------
(* _identify_suspicious_locations *)

\* sort_values("total_bytes", ascending=False); rows with equal total_bytes
\* are kept in their group order here
RECURSIVE SortByTotalBytesDesc(_)
SortByTotalBytesDesc(rows) ==
    IF rows = <<>> THEN <<>>
    ELSE LET k == CHOOSE i \in 1..Len(rows) :
                    /\ \A j \in 1..Len(rows) : rows[j].total_bytes <= rows[i].total_bytes
                    /\ \A j \in 1..(i - 1) : rows[j].total_bytes < rows[i].total_bytes
             rest == [j \in 1..(Len(rows) - 1) |-> IF j < k THEN rows[j] ELSE rows[j + 1]]
         IN <<rows[k]>> \o SortByTotalBytesDesc(rest)

SuspiciousColumns == {"ptr", "total_bytes", "allocation_count", "event_context"}

IdentifySuspiciousLocations(events_df, ptr_tracking) ==
    LET unresolved == Unresolved(ptr_tracking)
        unfreed_ptrs == {unresolved[i].ptr : i \in 1..Len(unresolved)}
        suspicious_allocs ==
            SelectSeq(events_df.rows,
                      LAMBDA r : IsAllocation(r) /\ r.ptr \in unfreed_ptrs)
        keys == SortSet({suspicious_allocs[i].ptr : i \in 1..Len(suspicious_allocs)})
        Group(p) == SelectSeq(suspicious_allocs, LAMBDA r : r.ptr = p)
        Sized(p) == SelectSeq(Group(p), LAMBDA r : ~IsNull(r.allocation_size))
        location_metrics ==
            [k \in 1..Len(keys) |->
                [ptr |-> keys[k],
                 total_bytes |->
                     SeqSum([i \in 1..Len(Sized(keys[k])) |->
                                Sized(keys[k])[i].allocation_size[1]]),
                 allocation_count |-> Len(Sized(keys[k])),
                 event_context |-> Head(Group(keys[k])).event_type]]
    IN DataFrame(SuspiciousColumns, SortByTotalBytesDesc(location_metrics))

---------------------------------------------------------------------------
(* _collect_detected_patterns: the growth finding.  The two findings that  *)
(* compare standard deviations (irregular allocation, volatility) are not  *)
(* modelled.                                                               *)
CollectDetectedPatterns(memory_trend) ==
    IF memory_trend.is_significant /\ RLt(Whole(0), memory_trend.slope)
    THEN << "Systematic memory growth detected" >>
    ELSE <<>>

---------------------------------------------------------------------------
(* analyze_memory_leaks *)

MemoryThresholds(window_size, fragmentation, growth_slope) ==
    [window_size |-> window_size, fragmentation |-> fragmentation,
     growth_slope |-> growth_slope]

DefaultThresholds == MemoryThresholds(1, Rat(7, 10), Rat(5, 10))

MemoryMetrics(unreleased, total, leak_rate, avg_size, max_growth, frag, slope, intercept) ==
    [unreleased_allocations |-> unreleased,
     total_allocations |-> total,
     leak_rate |-> leak_rate,
     avg_allocation_size |-> avg_size,
     max_continuous_growth_duration |-> max_growth,
     memory_fragmentation_score |-> frag,
     regression_slope |-> slope,
     regression_intercept |-> intercept]

LeakAnalysisResult(severity, confidence, metrics, patterns, suspicious) ==
    [severity |-> severity, confidence_score |-> confidence, metrics |-> metrics,
     detected_patterns |-> patterns, suspicious_locations |-> suspicious]

\* Mutation of NeutralResult: the confidence of the neutral result is 1
NeutralResultConfident ==
    LeakAnalysisResult("NONE", Whole(1),
        MemoryMetrics(0, 0, Whole(0), Whole(0), 0, Whole(0), Whole(0), Whole(0)),
        <<>>, EmptyFrame)

NeutralResult ==
    LeakAnalysisResult("NONE", Whole(0),
        MemoryMetrics(0, 0, Whole(0), Whole(0), 0, Whole(0), Whole(0), Whole(0)),
        <<>>, EmptyFrame)

\* The test of lines 164-165
Insufficient(frames) ==
    \/ IsNull(Get(frames, "Events Table")) \/ Empty(frames["Events Table"])
    \/ IsNull(Get(frames, "Memory Usage")) \/ Empty(frames["Memory Usage"])

\* What the steps of lines 181-187 compute
Analysis(frames, th, fit, cached) ==
    LET tracked == TrackPointerLifecycle(frames, cached)
        ptr_tracking == tracked.returned
        memory_trend == AnalyzeMemoryTrend(frames["Memory Usage"], th, fit)
        allocation_patterns == AnalyzeAllocationPatterns(frames["Events Table"])
        metrics == CalculateMemoryMetrics(ptr_tracking, memory_trend, allocation_patterns)
        ev == EvaluateSeverity(metrics, memory_trend.p_value, th)
    IN [ptr_lifecycle |-> tracked.ptr_lifecycle,
        locals |-> ev,
        result |->
            IF ev.raised # "none" THEN None
            ELSE Some(LeakAnalysisResult(ev.severity[1], ev.confidence, metrics,
                        CollectDetectedPatterns(memory_trend),
                        IdentifySuspiciousLocations(frames["Events Table"], ptr_tracking)))]

\* lastCall: the call, its arguments, and whether it repeats the call before
\* it (same operation, same arguments)
Call(op, args) ==
    [op |-> op, args |-> args,
     repeated |-> (lastCall.op = op /\ lastCall.args = args)]

AnalyzeMemoryLeaks(window_size, fragmentation_threshold, slope_threshold) ==
    LET th == MemoryThresholds(window_size, fragmentation_threshold, slope_threshold)
    IN /\ lastCall' = Call("analyze_memory_leaks", Some(th))
       /\ IF Insufficient(dataframes)
          THEN /\ result' = Some(NeutralResult)
               /\ raised' = "none"
               /\ scores' = None
               /\ UNCHANGED <<thresholds, ptr_lifecycle>>
          ELSE LET a == Analysis(dataframes, th, linregress, ptr_lifecycle)
               IN /\ thresholds' = th
                  /\ ptr_lifecycle' = a.ptr_lifecycle
                  /\ scores' = Some(a.locals)
                  /\ raised' = a.locals.raised
                  /\ result' = IF a.locals.raised = "none" THEN a.result ELSE result
       /\ UNCHANGED <<dataframes, linregress, plotCalls>>

---------------------------------------------------------------------------
(* interpret: it only reads the result; it raises KeyError where a table   *)
(* or column it indexes is absent, and re-runs the tracker otherwise.      *)
InterpretRaises(frames) ==
    \/ "Memory Usage" \notin DOMAIN frames
    \/ "Memory Usage" \notin frames["Memory Usage"].columns
    \/ "Events Table" \notin DOMAIN frames
    \/ "event_category" \notin frames["Events Table"].columns
    \/ Empty(frames["Events Table"])      \* ptr_tracking["lifetime"], line 553

Interpret ==
    /\ ~IsNull(result)
    /\ lastCall' = Call("interpret", None)
    /\ IF InterpretRaises(dataframes)
       THEN /\ raised' = "KeyError"
            /\ UNCHANGED ptr_lifecycle
       ELSE /\ raised' = "none"
            /\ ptr_lifecycle' = TrackPointerLifecycle(dataframes, ptr_lifecycle).ptr_lifecycle
    /\ UNCHANGED <<dataframes, linregress, thresholds, result, scores, plotCalls>>

---------------------------------------------------------------------------
(* plot_memory_leak_analysis *)

\* Lines 583-584: the trend line is scaled back in the result object itself
ScaleBack(analysis_result, memory_df) ==
    LET mx == Whole(MemoryMax(memory_df))
    IN [analysis_result EXCEPT
          !.metrics.regression_intercept = RMul(@, mx),
          !.metrics.regression_slope = RMul(@, mx)]

PlotMemoryLeakAnalysis ==
    LET memory_df == IF "Memory Usage" \in DOMAIN dataframes
                     THEN dataframes["Memory Usage"] ELSE EmptyFrame
        events_df == IF "Events Table" \in DOMAIN dataframes
                     THEN dataframes["Events Table"] ELSE EmptyFrame
    IN /\ ~IsNull(result)
       /\ plotCalls < MaxPlots
       /\ plotCalls' = plotCalls + 1
       /\ lastCall' = Call("plot_memory_leak_analysis", None)
       /\ raised' = "none"
       /\ result' = IF ~Empty(memory_df)
                    THEN Some(ScaleBack(result[1], memory_df)) ELSE result
       /\ ptr_lifecycle' = IF ~Empty(events_df)
                           THEN TrackPointerLifecycle(dataframes, ptr_lifecycle).ptr_lifecycle
                           ELSE ptr_lifecycle
       /\ UNCHANGED <<dataframes, linregress, thresholds, scores>>

---------------------------------------------------------------------------
(* Inputs *)

RawColumns == {"Event type", "size", "ptr"}

RawRows(times, types, sizes, ptrs) ==
    [ts : times, event_type : types, size : sizes, ptr : ptrs]

SeqsUpTo(S, n) == UNION {[1..k -> S] : k \in 0..n}

\* A table that lacks a column: its rows lack the field
DropColumn(df, col) ==
    DataFrame(df.columns \ {col},
              [i \in 1..Len(df.rows) |->
                  [f \in (DOMAIN df.rows[i]) \ {col} |-> df.rows[i][f]]])

\* The events tables the ingestion can deliver: absent (None), complete, or
\* lacking the size or the ptr column
EventInputs(rowSet, n) ==
    LET complete == {DataFrame(RawColumns, rows) : rows \in SeqsUpTo(rowSet, n)}
    IN {None} \cup {Some(df) : df \in complete}
              \cup {Some(DropColumn(df, "size")) : df \in complete}
              \cup {Some(DropColumn(df, "ptr")) : df \in complete}

\* Memory usage series: strictly increasing timestamps, at least two samples
Series(times, values, n) ==
    {[i \in 1..Cardinality(T) |-> [ts |-> SortSet(T)[i], usage |-> f[SortSet(T)[i]]]] :
        <<T, f>> \in UNION {{<<T0, f0>> : f0 \in [T0 -> values]} :
                              T0 \in {T1 \in SUBSET times :
                                        Cardinality(T1) >= 2 /\ Cardinality(T1) <= n}}}

MemoryInputs(times, values, n) ==
    {None, Some(EmptyFrame), Some(DataFrame({"Memory Usage"}, <<>>))}
      \cup {Some(DataFrame({"Memory Usage"}, rows)) : rows \in Series(times, values, n)}

NoFit == [slope |-> Whole(0), intercept |-> Whole(0), p_value |-> Whole(1)]

\* The dict BaseModule._process builds from the fetched outputs
Frames(ev, mem) ==
    [k \in (IF IsNull(ev) THEN {} ELSE {"Events Table"})
             \cup (IF IsNull(mem) THEN {} ELSE {"Memory Usage"}) |->
        IF k = "Events Table" THEN ev[1] ELSE mem[1]]

\* The state __init__ leaves
Constructed(ev, mem, fit) ==
    /\ dataframes = PostProcess(Frames(ev, mem))
    /\ linregress = IF IsNull(mem) \/ Empty(mem[1]) THEN NoFit ELSE fit
    /\ thresholds = DefaultThresholds
    /\ ptr_lifecycle = EmptyFrame
    /\ result = None
    /\ raised = "none"
    /\ scores = None
    /\ lastCall = [op |-> "__init__", args |-> None, repeated |-> FALSE]
    /\ plotCalls = 0

AllTypes == MallocTypes \cup FreeTypes \cup OtherTypes

\* The argument triples the calls are made with: the defaults, a wider
\* window, a zero and a negative slope threshold, a zero fragmentation
\* threshold
ThresholdChoices ==
    {MemoryThresholds(1, Rat(7, 10), Rat(5, 10)),
     MemoryThresholds(2, Rat(7, 10), Rat(5, 10)),
     MemoryThresholds(1, Rat(7, 10), Rat(0, 1)),
     MemoryThresholds(1, Rat(7, 10), Rat(-5, 10)),
     MemoryThresholds(1, Rat(0, 1), Rat(5, 10))}

WindowChoices ==
    {MemoryThresholds(1, Rat(7, 10), Rat(5, 10)),
     MemoryThresholds(2, Rat(7, 10), Rat(5, 10))}

FitChoices ==
    {[slope |-> Rat(-1, 4), intercept |-> Rat(1, 2), p_value |-> Rat(1, 100)],
     [slope |-> Rat(1, 4), intercept |-> Rat(1, 2), p_value |-> Rat(1, 100)],
     [slope |-> Rat(1, 4), intercept |-> Rat(1, 2), p_value |-> Rat(5, 100)],
     [slope |-> Rat(1, 4), intercept |-> Rat(1, 2), p_value |-> Rat(1, 2)],
     [slope |-> Rat(1, 1), intercept |-> Rat(0, 1), p_value |-> Rat(1, 100)]}

OneFit == {[slope |-> Rat(1, 4), intercept |-> Rat(1, 2), p_value |-> Rat(1, 100)]}

OneSeries ==
    {Some(DataFrame({"Memory Usage"}, << [ts |-> 0, usage |-> 1], [ts |-> 1, usage |-> 2] >>))}

\* Every way the data can be insufficient, short event logs on one pointer,
\* one memory series, several regression outcomes
Init ==
    \E ev \in EventInputs(RawRows({1}, AllTypes, {Some(1)}, {9}), 2),
       mem \in {None, Some(EmptyFrame), Some(DataFrame({"Memory Usage"}, <<>>))}
                 \cup OneSeries,
       fit \in FitChoices :
        Constructed(ev, mem, fit)

\* Many event logs (two pointers, unsorted timestamps), one memory series
InitTrack ==
    \E ev \in EventInputs(RawRows(1..2, MallocTypes \cup FreeTypes, {Some(1)}, {9, 10}),
                          MaxEvents),
       mem \in OneSeries, fit \in OneFit :
        Constructed(ev, mem, fit)

\* One event log, many memory series (irregular sampling)
InitTrend ==
    \E ev \in {Some(DataFrame(RawColumns,
                  << [ts |-> 1, event_type |-> "lttng_ust_libc:malloc",
                      size |-> Some(1), ptr |-> 9] >>))},
       mem \in MemoryInputs(0..MaxSamples, {1, 2}, MaxSamples),
       fit \in OneFit :
        Constructed(ev, mem, fit)

\* A memory series together with what the regression returns for it: a rising
\* series with a small or a larger significant slope, a flat series
ScenarioTrends ==
    {<< Some(DataFrame({"Memory Usage"}, << [ts |-> 0, usage |-> 1], [ts |-> 1, usage |-> 2] >>)),
        [slope |-> Rat(1, 10), intercept |-> Rat(1, 2), p_value |-> Rat(1, 100)] >>,
     << Some(DataFrame({"Memory Usage"}, << [ts |-> 0, usage |-> 1], [ts |-> 1, usage |-> 2] >>)),
        [slope |-> Rat(1, 4), intercept |-> Rat(1, 2), p_value |-> Rat(1, 100)] >>,
     << Some(DataFrame({"Memory Usage"}, << [ts |-> 0, usage |-> 1], [ts |-> 1, usage |-> 1] >>)),
        [slope |-> Rat(0, 1), intercept |-> Rat(1, 1), p_value |-> Rat(1, 1)] >>}

\* Event logs in time order
Chronological(logs) ==
    {rows \in logs : \A i \in 1..(Len(rows) - 1) : rows[i].ts <= rows[i + 1].ts}

\* Complete, time-ordered event logs on two pointers, each with a rising or a
\* flat series
InitScenario ==
    \E rows \in Chronological(
                  SeqsUpTo(RawRows(1..2, MallocTypes \cup FreeTypes, {Some(1)}, {9, 10}),
                           MaxEvents)),
       trend \in ScenarioTrends :
        Constructed(Some(DataFrame(RawColumns, rows)), trend[1], trend[2])

\* Event logs whose allocation sizes differ or are missing, on two pointers
InitSuspect ==
    \E rows \in SeqsUpTo(RawRows({1}, MallocTypes \cup FreeTypes,
                                 {Some(1), Some(2), NaN}, {9, 10}),
                         MaxEvents),
       mem \in OneSeries, fit \in OneFit :
        Constructed(Some(DataFrame(RawColumns, rows)), mem, fit)

Analyze(choices) ==
    \E th \in choices :
        AnalyzeMemoryLeaks(th.window_size, th.fragmentation, th.growth_slope)

Next ==
    \/ Analyze(ThresholdChoices)
    \/ Interpret
    \/ PlotMemoryLeakAnalysis

NextTrack ==
    \/ Analyze({DefaultThresholds})
    \/ Interpret
    \/ PlotMemoryLeakAnalysis

NextTrend ==
    \/ Analyze(WindowChoices)
    \/ Interpret
    \/ PlotMemoryLeakAnalysis

NextScenario ==
    \/ Analyze({DefaultThresholds})
    \/ Interpret
    \/ PlotMemoryLeakAnalysis

Spec == Init /\ [][Next]_vars
SpecTrack == InitTrack /\ [][NextTrack]_vars
SpecTrend == InitTrend /\ [][NextTrend]_vars
SpecScenario == InitScenario /\ [][NextScenario]_vars
SpecSuspect == InitSuspect /\ [][NextTrack]_vars

---------------------------------------------------------------------------
(* Properties *)

NoData(name) == name \notin DOMAIN dataframes \/ dataframes[name].rows = <<>>
Sufficient == ~NoData("Events Table") /\ ~NoData("Memory Usage")
Analyzed == lastCall.op = "analyze_memory_leaks"
Returned == Analyzed /\ raised = "none"
IsZero(r) == Num(r) = 0
InUnit(r) == RLe(Whole(0), r) /\ RLe(r, Whole(1))
AllocationRows == SelectSeq(dataframes["Events Table"].rows, IsAllocation)
AllocationPtrs == {AllocationRows[i].ptr : i \in 1..Len(AllocationRows)}

\* C1: whenever the events table or the memory usage table is missing or has
\* no rows (a table that lacked the size/ptr columns was replaced by the
\* empty table), analyze_memory_leaks returns, without raising, a result with
\* severity NONE, confidence 0, eight zero metrics, no pattern and no suspect.
C1_NeutralOnInsufficientData ==
    (Analyzed /\ ~Sufficient) =>
        /\ raised = "none"
        /\ ~IsNull(result)
        /\ result[1].severity = "NONE"
        /\ IsZero(result[1].confidence_score)
        /\ result[1].metrics.unreleased_allocations = 0
        /\ result[1].metrics.total_allocations = 0
        /\ IsZero(result[1].metrics.leak_rate)
        /\ IsZero(result[1].metrics.avg_allocation_size)
        /\ result[1].metrics.max_continuous_growth_duration = 0
        /\ IsZero(result[1].metrics.memory_fragmentation_score)
        /\ IsZero(result[1].metrics.regression_slope)
        /\ IsZero(result[1].metrics.regression_intercept)
        /\ result[1].detected_patterns = <<>>
        /\ result[1].suspicious_locations.rows = <<>>

\* The events table lacked a required column, the memory series has samples
C1_Witness ==
    /\ Analyzed
    /\ "Events Table" \in DOMAIN dataframes
    /\ dataframes["Events Table"].columns = {}
    /\ ~NoData("Memory Usage")
    /\ raised = "none"
    /\ ~IsNull(result) /\ result[1].severity = "NONE"

\* C2 (the claim as stated): the lifecycle table holds exactly one row per
\* distinct pointer identity among the allocation events, whatever the number
\* of allocation and deallocation events sharing that identity.
C2_OneRowPerPointer ==
    ptr_lifecycle.columns # {} =>
        /\ Len(ptr_lifecycle.rows) = Cardinality(AllocationPtrs)
        /\ \A p \in AllocationPtrs :
              \E i \in 1..Len(ptr_lifecycle.rows) : ptr_lifecycle.rows[i].ptr = p

\* C3: in every lifecycle table a row with a deallocation time has a
\* lifetime >= 0, which is 0 when the deallocation precedes the allocation;
\* a row without a deallocation time has no lifetime.
C3_LifetimeNonNegative ==
    \A i \in 1..Len(ptr_lifecycle.rows) :
        LET r == ptr_lifecycle.rows[i]
        IN IF IsNull(r.deallocation_time)
           THEN IsNull(r.lifetime)
           ELSE /\ ~IsNull(r.lifetime)
                /\ r.lifetime[1] >= 0
                /\ (r.deallocation_time[1] < r.allocation_time[1] => r.lifetime[1] = 0)

C3_Witness ==
    \E i \in 1..Len(ptr_lifecycle.rows) :
        /\ ~IsNull(ptr_lifecycle.rows[i].deallocation_time)
        /\ ptr_lifecycle.rows[i].deallocation_time[1] < ptr_lifecycle.rows[i].allocation_time[1]
        /\ ptr_lifecycle.rows[i].lifetime = Some(0)

\* C4: a MemoryMetrics record computed from a non-empty lifecycle table has
\* unreleased_allocations <= total_allocations and a fragmentation score in
\* [0, 1].
C4_MetricsBounds ==
    (Returned /\ ~Empty(ptr_lifecycle)) =>
        /\ result[1].metrics.unreleased_allocations <= result[1].metrics.total_allocations
        /\ InUnit(result[1].metrics.memory_fragmentation_score)

\* Duplicate allocations: fewer lifecycle rows than allocation events
C4_Witness ==
    /\ Returned /\ ~Empty(ptr_lifecycle)
    /\ result[1].metrics.total_allocations > Len(ptr_lifecycle.rows)
    /\ result[1].metrics.unreleased_allocations >= 1
    /\ result[1].metrics.unreleased_allocations < result[1].metrics.total_allocations

\* C5 (the claim as stated): for every threshold pair the call accepts, each
\* of growth_score, unreleased_score, fragmentation_score and the confidence
\* lies in [0, 1].
C5_ScoresInUnitInterval ==
    (~IsNull(scores) /\ scores[1].raised = "none") =>
        /\ InUnit(scores[1].growth_score)
        /\ InUnit(scores[1].unreleased_score)
        /\ InUnit(scores[1].fragmentation_score)
        /\ InUnit(scores[1].confidence)

\* C6: the severity is decided by half-open bands of the weighted score
\* w = 0.4 growth + 0.4 unreleased + 0.2 fragmentation: w < 0.2 NONE,
\* 0.2 <= w < 0.4 LOW, 0.4 <= w < 0.6 MEDIUM, 0.6 <= w < 0.8 HIGH, w >= 0.8
\* CRITICAL; and from one evaluation to the next a score that is not smaller
\* never gets a lower severity.
Rank(sev) ==
    CASE sev = "NONE" -> 0 [] sev = "LOW" -> 1 [] sev = "MEDIUM" -> 2
      [] sev = "HIGH" -> 3 [] sev = "CRITICAL" -> 4

Evaluated(s) == ~IsNull(s) /\ s[1].raised = "none"

InBand(w, sev) ==
    /\ REq(RMul(Whole(10), w.weighted_score),
           RAdd(RAdd(RMul(Whole(4), w.growth_score), RMul(Whole(4), w.unreleased_score)),
                RMul(Whole(2), w.fragmentation_score)))
    /\ sev = "NONE" <=> RLt(w.weighted_score, Rat(1, 5))
    /\ sev = "LOW" <=> (RLe(Rat(1, 5), w.weighted_score) /\ RLt(w.weighted_score, Rat(2, 5)))
    /\ sev = "MEDIUM" <=> (RLe(Rat(2, 5), w.weighted_score) /\ RLt(w.weighted_score, Rat(3, 5)))
    /\ sev = "HIGH" <=> (RLe(Rat(3, 5), w.weighted_score) /\ RLt(w.weighted_score, Rat(4, 5)))
    /\ sev = "CRITICAL" <=> RLe(Rat(4, 5), w.weighted_score)

C6_Step ==
    Evaluated(scores') =>
        /\ InBand(scores'[1], scores'[1].severity[1])
        /\ (Evaluated(scores)
              /\ RLe(scores[1].weighted_score, scores'[1].weighted_score))
             => Rank(scores[1].severity[1]) <= Rank(scores'[1].severity[1])

C6_SeverityBands == [][C6_Step]_vars

\* A weighted score exactly on the boundary 0.6 is HIGH
C6_Witness ==
    /\ Evaluated(scores)
    /\ REq(scores[1].weighted_score, Rat(3, 5))
    /\ scores[1].severity = Some("HIGH")
    /\ ~IsNull(result) /\ result[1].severity = "HIGH"

\* C7 (the claim as stated): with sufficient data analyze_memory_leaks never
\* raises an arithmetic fault; when there is no allocation event
\* unreleased_score is taken as 0.
C7_NoArithmeticFault ==
    (Analyzed /\ Sufficient) =>
        /\ raised = "none"
        /\ (AllocationRows = <<>> =>
              /\ ~IsNull(scores)
              /\ ~IsNull(scores[1].unreleased_score)
              /\ IsZero(scores[1].unreleased_score))

\* C8 (the claim as stated): leak_rate is the regression slope when the slope
\* is positive and p_value < 0.05, and 0 in every other case.
C8_LeakRateWhenSignificant ==
    (Returned /\ Sufficient) =>
        REq(result[1].metrics.leak_rate,
            IF RLt(linregress.p_value, Rat(1, 20)) /\ RLt(Whole(0), linregress.slope)
            THEN linregress.slope ELSE Whole(0))

\* C9 (the claim as stated): max_continuous_growth_duration is the longest
\* span (last minus first timestamp) of a run of consecutive samples at each
\* of which the rolling mean is above its predecessor; a run of one sample
\* and samples that do not increase contribute 0.
LongestIncreasingSpan(rolling_mean) ==
    LET Increases(i) == i > 1 /\ RLt(rolling_mean[i - 1].mean, rolling_mean[i].mean)
        runs == {r \in (1..Len(rolling_mean)) \X (1..Len(rolling_mean)) :
                    r[1] <= r[2] /\ \A k \in r[1]..r[2] : Increases(k)}
    IN SetMax({0} \cup {rolling_mean[r[2]].ts - rolling_mean[r[1]].ts : r \in runs})

C9_LongestGrowthRun ==
    (Returned /\ Sufficient) =>
        result[1].metrics.max_continuous_growth_duration =
            LongestIncreasingSpan(
                RollingMean(Normalize(dataframes["Memory Usage"]).rows,
                            thresholds.window_size))

\* C10: a call of analyze_memory_leaks that repeats the call before it (same
\* tables, same thresholds) returns MemoryMetrics equal field by field to
\* those the first call returned.
C10_Step ==
    (Returned /\ lastCall'.op = "analyze_memory_leaks" /\ lastCall'.repeated) =>
        /\ raised' = "none"
        /\ result'[1].metrics = result[1].metrics

C10_Idempotent == [][C10_Step]_vars

\* A second identical call on a trace with an unreleased allocation
C10_Witness ==
    /\ Returned /\ lastCall.repeated /\ Sufficient
    /\ result[1].metrics.unreleased_allocations >= 1
    /\ ~Empty(ptr_lifecycle)

\* C11 (the claim as stated): once analyze_memory_leaks has returned a
\* LeakAnalysisResult, no later interpret or plot_memory_leak_analysis call
\* that receives it changes a field of its MemoryMetrics.
C11_Step ==
    (~IsNull(result)
       /\ lastCall'.op \in {"interpret", "plot_memory_leak_analysis"})
      => result'[1].metrics = result[1].metrics

C11_ResultImmutable == [][C11_Step]_vars

\* C12 (the claim as stated): every analyze_memory_leaks call, whatever its
\* outcome, leaves the thresholds it was passed in self.thresholds.
C12_ThresholdsSnapshot ==
    Analyzed => thresholds = lastCall.args[1]

DeallocationRows == SelectSeq(dataframes["Events Table"].rows, IsDeallocation)
DeallocationPtrs == {DeallocationRows[i].ptr : i \in 1..Len(DeallocationRows)}
DefaultCall == Analyzed /\ lastCall.args = Some(DefaultThresholds)

\* At least one allocation event, none with a deallocation of its pointer;
\* the regression slope is positive and significant
PureLeak ==
    /\ Sufficient
    /\ AllocationRows # <<>>
    /\ AllocationPtrs \cap DeallocationPtrs = {}
    /\ RLt(Whole(0), linregress.slope)
    /\ RLt(linregress.p_value, Rat(1, 20))

DistinctAllocations == Cardinality(AllocationPtrs) = Len(AllocationRows)

ReportsAllUnreleased ==
    /\ raised = "none"
    /\ result[1].metrics.unreleased_allocations = Len(AllocationRows)
    /\ result[1].severity \in {"HIGH", "CRITICAL"}

\* C13 (the claim as stated): with the default thresholds, a trace of N >= 1
\* allocation events without a matching deallocation and a positive,
\* significant slope is reported with unreleased_allocations = N and severity
\* HIGH or CRITICAL.
C13_PureLeakAnyTrace ==
    (DefaultCall /\ PureLeak) => ReportsAllUnreleased

\* C13 (amended): the same, for traces whose N allocation events have
\* pairwise distinct pointer identities.
C13_PureLeakDistinctPointers ==
    (DefaultCall /\ PureLeak /\ DistinctAllocations) => ReportsAllUnreleased

\* Two leaked pointers and a small significant slope: severity HIGH
C13_Witness ==
    /\ DefaultCall /\ PureLeak /\ DistinctAllocations
    /\ Len(AllocationRows) = 2
    /\ result[1].metrics.unreleased_allocations = 2
    /\ result[1].severity = "HIGH"

\* Every allocation event is followed, in the table and not earlier in time,
\* by a deallocation event of the same pointer; the growth rate is zero
Balanced ==
    /\ Sufficient
    /\ AllocationRows # <<>>
    /\ LET rows == dataframes["Events Table"].rows
       IN \A i \in 1..Len(rows) :
            IsAllocation(rows[i]) =>
                \E j \in (i + 1)..Len(rows) :
                    /\ IsDeallocation(rows[j])
                    /\ rows[j].ptr = rows[i].ptr
                    /\ rows[j].ts >= rows[i].ts
    /\ ~RLt(Whole(0), linregress.slope)

C15_EarliestAllocationKept ==
    ptr_lifecycle.columns # {} =>
        \A i \in 1..Len(ptr_lifecycle.rows) :
            \A k \in 1..Len(AllocationRows) :
                AllocationRows[k].ptr = ptr_lifecycle.rows[i].ptr
                    => ptr_lifecycle.rows[i].allocation_time[1] <= AllocationRows[k].ts

UnresolvedPtrs ==
    {ptr_lifecycle.rows[i].ptr :
        i \in {j \in 1..Len(ptr_lifecycle.rows) :
                 IsNull(ptr_lifecycle.rows[j].deallocation_time)}}

AllocationsOf(p) == SelectSeq(AllocationRows, LAMBDA r : r.ptr = p)

BytesOf(p) ==
    SeqSum([i \in 1..Len(AllocationsOf(p)) |->
               IF IsNull(AllocationsOf(p)[i].allocation_size) THEN 0
               ELSE AllocationsOf(p)[i].allocation_size[1]])

\* C16 (the claim as stated): the suspect table has exactly one row per
\* pointer that is unresolved in the lifecycle table; a row's total_bytes is
\* the sum of the sizes and its allocation_count the number of all allocation
\* events of its pointer in the events table; the rows are in non-increasing
\* order of total_bytes.
C16_SuspiciousLocations ==
    Returned =>
        LET sus == result[1].suspicious_locations.rows
        IN /\ {sus[i].ptr : i \in 1..Len(sus)} = UnresolvedPtrs
           /\ Len(sus) = Cardinality(UnresolvedPtrs)
           /\ \A i \in 1..Len(sus) :
                 /\ sus[i].total_bytes = BytesOf(sus[i].ptr)
                 /\ sus[i].allocation_count = Len(AllocationsOf(sus[i].ptr))
           /\ \A i \in 1..(Len(sus) - 1) : sus[i].total_bytes >= sus[i + 1].total_bytes

\* C17: a lifecycle row is unresolved, and counted in unreleased_allocations,
\* exactly when no deallocation event of its pointer exists anywhere in the
\* events table, whatever the order of the events.
C17_UnreleasedIffNoDeallocation ==
    ptr_lifecycle.columns # {} =>
        /\ \A i \in 1..Len(ptr_lifecycle.rows) :
              IsNull(ptr_lifecycle.rows[i].deallocation_time)
                  <=> ptr_lifecycle.rows[i].ptr \notin DeallocationPtrs
        /\ Returned =>
              result[1].metrics.unreleased_allocations
                  = Cardinality(AllocationPtrs \ DeallocationPtrs)

\* A pointer freed before it is allocated (earlier row, earlier timestamp) and
\* never freed afterwards counts as released
C17_Witness ==
    /\ Returned /\ Sufficient
    /\ result[1].metrics.unreleased_allocations = 0
    /\ LET rows == dataframes["Events Table"].rows
       IN \E j \in 1..Len(rows) :
            /\ IsAllocation(rows[j])
            /\ \E i \in 1..(j - 1) : IsDeallocation(rows[i]) /\ rows[i].ptr = rows[j].ptr
            /\ \A i \in 1..Len(rows) :
                  (IsDeallocation(rows[i]) /\ rows[i].ptr = rows[j].ptr)
                      => (i < j /\ rows[i].ts < rows[j].ts)

=============================================================================
